---- MODULE Spec2Model ----
(***************************************************************************)
(* A model of oect.py (class OECT): sweep splitting (_reverse), loading    *)
(* and aggregation of transfer curves, transconductance (calc_gms) and     *)
(* threshold extraction (thresh, _min_fit, _find_peak).                    *)
(*                                                                         *)
(* Voltages are integers in units of 0.01 V, currents are integers in an   *)
(* arbitrary current unit.  Python indices are 0-based and are kept        *)
(* 0-based in the model (mx, rev_point, candidate indices); sequences are  *)
(* TLA+ sequences, so element j of a Python array a is a[j + 1].           *)
(***************************************************************************)
EXTENDS Integers, Sequences, FiniteSets, TLC

(***************************************************************************)
(* Bounds of the model.                                                    *)
(***************************************************************************)
\* longest voltage sequence handed to _reverse in SpecReverse
MaxLen == 5
\* voltages handed to _reverse in SpecReverse are drawn from 0..MaxVolt
MaxVolt == 2
\* most transfer files in the device folder
MaxFiles == 2
\* forward-leg sample counts of the short and of the long transfer sweeps
KShort == 3
KLong == 7
\* calc_gms() is called at most MaxCalc times, thresh() at most MaxThresh
MaxCalc == 2
MaxThresh == 1
\* most peaks find_peaks_cwt reports in one call
MaxPeaks == 2
\* most transfer files in the device folder in SpecLoad
MaxLoad == 4

(***************************************************************************)
(* numpy helpers                                                           *)
(***************************************************************************)
Abs(x) == IF x < 0 THEN -x ELSE x

Min2(a, b) == IF a < b THEN a ELSE b

\* Python's s[a:b] for 0 <= a, 0 <= b (the slice is clipped to the array)
PySlice(s, a, b) ==
    IF a >= Min2(b, Len(s)) THEN << >> ELSE SubSeq(s, a + 1, Min2(b, Len(s)))

\* np.flip
Flip(s) == [j \in 1..Len(s) |-> s[Len(s) + 1 - j]]

\* np.allclose(x, y) with numpy's default tolerances rtol = 1e-5 and
\* atol = 1e-8 V: |x - y| <= atol + rtol * |y| for every pair.  With the
\* voltage unit of 0.01 V, atol is 1e-6 units; the inequality is multiplied
\* by TolScale = 1e6 to stay in the integers.
TolScale == 1000000
ATolScaled == 1
RTolScaled == 10

AllClose(x, y) ==
    \A j \in 1..Len(x) :
        Abs(x[j] - y[j]) * TolScale <= ATolScaled + RTolScaled * Abs(y[j])

(***************************************************************************)
(* OECT._reverse (lines 334-386), the value it returns: the pair           *)
(* (mx, flag).  The fields it sets when transfer=True are set by           *)
(* all_transfers below.                                                    *)
(***************************************************************************)
\* line 350
Midpoint(v) == Len(v) \div 2 + 1

\* lines 351-357: the windows compared, and the comparison
IsReverse(v) ==
    LET n == Len(v)
        x == IF n % 2 = 1 THEN PySlice(v, 0, n \div 2)
                          ELSE PySlice(v, 1, n \div 2)
        y == Flip(PySlice(v, Midpoint(v), n))
    IN  AllClose(x, y)

\* line 378 with a slip: the index one past the last sample
NoReverseIndexPastEnd(v) == Len(v)

\* line 378: the split index when no reverse leg is detected
NoReverseIndex(v) == Len(v) - 1

\* lines 364-386
_reverse(v) ==
    IF IsReverse(v)
    THEN [mx |-> Midpoint(v) - 1, flag |-> TRUE]
    ELSE [mx |-> NoReverseIndex(v), flag |-> FALSE]

(***************************************************************************)
(* pandas helpers.  A Series is [index, vals]; a DataFrame is              *)
(* [index, cols] with cols a sequence of [nm, vals], every vals aligned    *)
(* to index.  A cell is <<x>> (the number x) or << >> (NaN).  A dict is a  *)
(* sequence of [key, val] in insertion order.                              *)
(***************************************************************************)
NaN == << >>

Cells(xs) == [j \in 1..Len(xs) |-> <<xs[j]>>]

\* pd.DataFrame()
EmptyFrame == [kind |-> "DataFrame", index |-> << >>, cols |-> << >>]

\* the position of key k in dict d, 0 when absent
DictPos(d, k) ==
    IF \E j \in 1..Len(d) : d[j].key = k
    THEN CHOOSE j \in 1..Len(d) : d[j].key = k
    ELSE 0

HasKey(d, k) == DictPos(d, k) # 0

\* d[k] = x: an existing key keeps its place, a new key is appended
DictSet(d, k, x) ==
    IF HasKey(d, k)
    THEN [d EXCEPT ![DictPos(d, k)] = [key |-> k, val |-> x]]
    ELSE Append(d, [key |-> k, val |-> x])

\* Series.sort_index: the (label, value) pairs in ascending label order
RECURSIVE InsertPair(_, _)
InsertPair(ps, x) ==
    IF ps = << >> THEN <<x>>
    ELSE IF x[1] <= Head(ps)[1] THEN <<x>> \o ps
         ELSE <<Head(ps)>> \o InsertPair(Tail(ps), x)

RECURSIVE SortPairs(_)
SortPairs(ps) ==
    IF ps = << >> THEN << >> ELSE InsertPair(SortPairs(Tail(ps)), Head(ps))

\* pd.Series(data=vals, index=idx) followed by sort_index(inplace=True)
SortedSeries(idx, vals) ==
    LET ps == SortPairs([j \in 1..Len(idx) |-> <<idx[j], vals[j]>>])
    IN  [index |-> [j \in 1..Len(ps) |-> ps[j][1]],
         vals  |-> [j \in 1..Len(ps) |-> ps[j][2]]]

HasDuplicates(idx) == \E a, b \in 1..Len(idx) : a # b /\ idx[a] = idx[b]

\* the value of a series at a label (the index has no duplicates), NaN when
\* the label is absent
AtLabel(ser, lab) ==
    IF \E j \in 1..Len(ser.index) : ser.index[j] = lab
    THEN <<ser.vals[CHOOSE j \in 1..Len(ser.index) : ser.index[j] = lab]>>
    ELSE NaN

\* the position of the column named nm, 0 when absent
ColPos(frame, nm) ==
    IF \E j \in 1..Len(frame.cols) : frame.cols[j].nm = nm
    THEN CHOOSE j \in 1..Len(frame.cols) : frame.cols[j].nm = nm
    ELSE 0

PutCol(frame, nm, cells) ==
    IF ColPos(frame, nm) # 0
    THEN [frame EXCEPT !.cols[ColPos(frame, nm)] = [nm |-> nm, vals |-> cells]]
    ELSE [frame EXCEPT !.cols = Append(@, [nm |-> nm, vals |-> cells])]

\* frame[nm] = ser.  A frame without rows takes the index of the series;
\* otherwise the series is aligned to the frame's index, which pandas
\* refuses (ValueError) for a series whose index has duplicate labels and
\* differs from the frame's.
FrameSet(frame, nm, ser) ==
    IF Len(frame.index) = 0 /\ Len(ser.index) > 0
    THEN [ok |-> TRUE,
          frame |-> PutCol(
              [kind  |-> frame.kind,
               index |-> ser.index,
               cols  |-> [c \in 1..Len(frame.cols) |->
                            [nm |-> frame.cols[c].nm,
                             vals |-> [j \in 1..Len(ser.index) |-> NaN]]]],
              nm, Cells(ser.vals))]
    ELSE IF ser.index = frame.index
    THEN [ok |-> TRUE, frame |-> PutCol(frame, nm, Cells(ser.vals))]
    ELSE IF HasDuplicates(ser.index)
    THEN [ok |-> FALSE, frame |-> frame]
    ELSE [ok |-> TRUE,
          frame |-> PutCol(frame, nm,
              [j \in 1..Len(frame.index) |-> AtLabel(ser, frame.index[j])])]

\* DataFrame.mean(1): per row, the mean of the cells that are not NaN, kept
\* as the exact pair <<sum, count>>; NaN for a row of NaN only
RECURSIVE RowSum(_, _, _)
RowSum(cols, j, c) ==
    IF c = 0 THEN <<0, 0>>
    ELSE LET rest == RowSum(cols, j, c - 1)
             cell == cols[c].vals[j]
         IN  IF cell = NaN THEN rest
             ELSE <<rest[1] + cell[1], rest[2] + 1>>

RowMean(cols, j) ==
    IF RowSum(cols, j, Len(cols))[2] = 0 THEN NaN
    ELSE RowSum(cols, j, Len(cols))

MeanRows(frame) ==
    [kind  |-> "Series",
     index |-> frame.index,
     vals  |-> [j \in 1..Len(frame.index) |-> RowMean(frame.cols, j)]]

(***************************************************************************)
(* The transfer files of a device folder.  A file is a drain voltage Vd    *)
(* (V_DS in its header) and a gate sweep of k forward samples in steps of  *)
(* one voltage unit, followed by the mirrored reverse leg (sharing the     *)
(* turning sample) when rev.  p-type files (Vd < 0) sweep negative gate    *)
(* voltages, n-type files positive ones; the drain current is Vd * Vg^2.   *)
(***************************************************************************)
Vds == {-1, 1}

Ks == {KShort, KLong}

Files == [Vd : Vds, k : Ks, rev : BOOLEAN]

FwdLeg(f) == [j \in 1..f.k |-> IF f.Vd < 0 THEN j - 1 - KLong ELSE j]

\* the V_G column of the file
FileV(f) ==
    IF f.rev THEN FwdLeg(f) \o Flip(SubSeq(FwdLeg(f), 1, f.k - 1))
    ELSE FwdLeg(f)

\* the I_DS (A) column of the file
FileI(f) == [j \in 1..Len(FileV(f)) |-> f.Vd * FileV(f)[j] * FileV(f)[j]]

(***************************************************************************)
(* Inputs of the pure-function specification SpecReverse.                  *)
(***************************************************************************)
Volts == 0..MaxVolt

SeqsUpTo(S, n) == UNION {[1..m -> S] : m \in 0..n}

\* strictly monotonic (ascending or descending)
StrictlyMonotonic(v) ==
    \/ \A j \in 1..(Len(v) - 1) : v[j] < v[j + 1]
    \/ \A j \in 1..(Len(v) - 1) : v[j] > v[j + 1]

VARIABLES
    v_in,       \* SpecReverse: the voltage sequence handed to _reverse
    split,      \* SpecReverse: << >> before the call, <<result>> after it
    fp,         \* SpecFindPeak: the call of _find_peak, [V, peaks, out] with
                \* out << >> before the call and <<mx_d2>> after it
    pc,         \* "loading" (in loaddata), "failed" (the constructor raised),
                \* "ready" (device constructed), "thresh" (inside thresh)
    err,        \* the exception the last call raised and the line raising
                \* it ("IndexError:453"), "none" if the call returned
    options,    \* self.options: Average and Reverse
    files_read, \* the number of transfer files loaddata has read so far
    transfer,   \* self.transfer: dict key -> [v, i]; a key is [vd, n] for
                \* the string str(Vd) + '_' + str(n)
    transfers,  \* self.transfers; a column name is [vd, n, leg] for the
                \* string key + '_01' or key + '_02'
    num_transfers,
    reverse, rev_point, rev_v,
    gm_fwd, gm_bwd, \* dicts key -> gm DataFrame ([index, vals]; empty: << >>)
    gm_peaks,   \* [set, rows]: the attribute does not exist until calc_gms
    gms,        \* self.gms; a column name is [vd, n] for 'gm_' + key
    peak_gm,
    quad,       \* "unset" until quadrant() assigns it
    Vt, Vts, VgVt, VgVts,
    loc,        \* the locals of a running thresh(): [k, Vts, VgVts, fit]
    hist        \* history: the calc_gms and thresh calls made, the last call

vars == <<v_in, split, fp, pc, err, options, files_read, transfer, transfers,
          num_transfers, reverse, rev_point, rev_v, gm_fwd, gm_bwd, gm_peaks,
          gms, peak_gm, quad, Vt, Vts, VgVt, VgVts, loc, hist>>

deviceVars == <<pc, err, options, files_read, transfer, transfers,
                num_transfers, reverse, rev_point, rev_v, gm_fwd, gm_bwd,
                gm_peaks, gms, peak_gm, quad, Vt, Vts, VgVt, VgVts, loc, hist>>

\* np.nan as a scalar attribute
NaNScalar == [kind |-> "nan"]

\* an attribute __init__ does not create (rev_v, VgVt, VgVts)
NoAttr == [kind |-> "unset"]

\* no thresh() is running; fit is what the last _min_fit call returned
NoLocals == [k |-> 0, Vts |-> << >>, VgVts |-> << >>, fit |-> << >>]

\* calc_ok: the last calc_gms() call returned without an exception
NoHist == [calc |-> 0, calc_ok |-> FALSE, thresh |-> 0, last |-> "init"]

\* __init__ with a slip: gm_peaks is created as an empty table
EmptyGmPeaks == [set |-> TRUE, rows |-> << >>]

\* lines 143-169 assign no gm_peaks: the attribute does not exist
NoGmPeaks == [set |-> FALSE, rows |-> << >>]

\* no call of _find_peak is under check
NoFindPeak == [V |-> << >>, peaks |-> << >>, out |-> << >>]

\* OECT.__init__, lines 143-169: the fields before loaddata runs
InitFields ==
    /\ transfer = << >>
    /\ transfers = EmptyFrame
    /\ gm_fwd = << >>
    /\ gm_bwd = << >>
    /\ gms = EmptyFrame
    /\ peak_gm = << >>
    /\ num_transfers = 0
    /\ reverse = FALSE
    /\ rev_point = NaN
    /\ rev_v = NoAttr
    /\ Vt = NaNScalar
    /\ Vts = NaNScalar
    /\ VgVt = NoAttr
    /\ VgVts = NoAttr
    /\ gm_peaks = NoGmPeaks
    /\ quad = "unset"
    /\ files_read = 0
    /\ err = "none"
    /\ loc = NoLocals
    /\ hist = NoHist

Called == split # << >>

InitReverse ==
    /\ v_in \in SeqsUpTo(Volts, MaxLen)
    /\ split = << >>
    /\ fp = NoFindPeak
    /\ pc = "reverse"
    /\ options = [Average |-> FALSE, Reverse |-> TRUE]
    /\ InitFields

CallReverse ==
    /\ split = << >>
    /\ split' = <<_reverse(v_in)>>
    /\ UNCHANGED <<v_in, fp, deviceVars>>

NextReverse == CallReverse

SpecReverse == InitReverse /\ [][NextReverse]_vars

(***************************************************************************)
(* Loading: OECT.__init__ -> loaddata -> transfer_curve / all_transfers.   *)
(***************************************************************************)
Init ==
    /\ v_in = << >>
    /\ split = << >>
    /\ fp = NoFindPeak
    /\ pc = "loading"
    /\ options \in [Average : BOOLEAN, Reverse : {TRUE}]
    /\ InitFields

\* line 563 with a slip: the key already present is assigned again
NextSuffixSame(lastKey) == lastKey.n

\* lines 562-563: c = str(int(c[-1]) + 1), with c the last key of the dict
\* and c[-1] its last character, the last decimal digit of its suffix
NextSuffix(lastKey) == (lastKey.n % 10) + 1

\* lines 559-567: the key under which a transfer file with V_DS = vd is stored
TransferKey(d, vd) ==
    IF HasKey(d, [vd |-> vd, n |-> 0])
    THEN [vd |-> vd, n |-> NextSuffix(d[Len(d)].key)]
    ELSE [vd |-> vd, n |-> 0]

\* loaddata lines 256-261 for one transfer file: get_metadata reads V_DS,
\* transfer_curve (lines 548-574) stores the Id-Vg table under its key
StoreTransfer(f) ==
    /\ pc = "loading"
    /\ transfer' = DictSet(transfer, TransferKey(transfer, f.Vd),
                           [v |-> FileV(f), i |-> FileI(f)])
    /\ files_read' = files_read + 1
    /\ hist' = [hist EXCEPT !.last = "transfer_curve"]
    /\ UNCHANGED <<v_in, split, fp, pc, err, options, transfers, num_transfers,
                   reverse, rev_point, rev_v, gm_fwd, gm_bwd, gm_peaks, gms,
                   peak_gm, quad, Vt, Vts, VgVt, VgVts, loc>>

\* one more transfer file of a folder of at most MaxFiles files
transfer_curve(f) ==
    /\ files_read < MaxFiles
    /\ StoreTransfer(f)

LegName(key, leg) == [vd |-> key.vd, n |-> key.n, leg |-> leg]

\* all_transfers lines 582-598 for the dict entries j..Len(d); st carries
\* the fields the loop writes: the table, and what _reverse(idx,
\* transfer=True) stores (lines 368-372, 380-384)
RECURSIVE AllTransfersLoop(_, _, _)
AllTransfersLoop(d, j, st) ==
    IF j > Len(d) \/ st.err # "none" THEN st
    ELSE
    LET tf  == d[j].key
        idx == d[j].val.v
        cur == d[j].val.i
        r   == _reverse(idx)
        mx  == r.mx
        fwd == FrameSet(st.transfers, LegName(tf, 1),
                        SortedSeries(PySlice(idx, 0, mx), PySlice(cur, 0, mx)))
        bwd == FrameSet(fwd.frame, LegName(tf, 2),
                        SortedSeries(PySlice(idx, mx, Len(idx)),
                                     PySlice(cur, mx, Len(cur))))
        set == [st EXCEPT !.rev_point = <<mx>>, !.rev_v = <<idx[mx + 1]>>,
                          !.Reverse = r.flag, !.reverse = r.flag]
    IN  IF mx >= Len(idx) THEN [st EXCEPT !.err = "IndexError:370"]
        ELSE IF ~fwd.ok THEN [set EXCEPT !.err = "ValueError:592"]
        ELSE IF ~r.flag
             THEN AllTransfersLoop(d, j + 1, [set EXCEPT !.transfers = fwd.frame])
        ELSE IF ~bwd.ok
             THEN [set EXCEPT !.transfers = fwd.frame, !.err = "ValueError:598"]
        ELSE AllTransfersLoop(d, j + 1, [set EXCEPT !.transfers = bwd.frame])

\* all_transfers, lines 582-601 (option V_low keeps its default, False)
all_transfers ==
    LET st == AllTransfersLoop(transfer, 1,
                  [transfers |-> transfers, rev_point |-> rev_point,
                   rev_v |-> rev_v, Reverse |-> options.Reverse,
                   reverse |-> reverse, err |-> "none"])
    IN  IF st.err = "none" /\ options.Average
        THEN [st EXCEPT !.transfers = MeanRows(st.transfers)]
        ELSE st

\* loaddata lines 266-280 once every file is read, and the rest of __init__.
\* len(self.transfers.columns) at line 270 raises AttributeError when
\* all_transfers left a Series in self.transfers.
LoadDone ==
    /\ pc = "loading"
    /\ LET st == all_transfers
           e  == IF st.err # "none" THEN st.err
                 ELSE IF st.transfers.kind = "Series" THEN "AttributeError:270"
                 ELSE "none"
       IN  /\ transfers' = st.transfers
           /\ rev_point' = st.rev_point
           /\ rev_v' = st.rev_v
           /\ reverse' = st.reverse
           /\ options' = [options EXCEPT !.Reverse = st.Reverse]
           /\ err' = e
           /\ pc' = IF e = "none" THEN "ready" ELSE "failed"
           /\ num_transfers' = IF e = "none" THEN Len(st.transfers.cols)
                               ELSE num_transfers
    /\ hist' = [hist EXCEPT !.last = "loaddata"]
    /\ UNCHANGED <<v_in, split, fp, files_read, transfer, gm_fwd, gm_bwd,
                   gm_peaks, gms, peak_gm, quad, Vt, Vts, VgVt, VgVts, loc>>

(***************************************************************************)
(* Loading alone, for folders of up to MaxLoad transfer files: SpecLoad    *)
(* runs the constructor and stops there.                                   *)
(***************************************************************************)
load_transfer(f) ==
    /\ files_read < MaxLoad
    /\ StoreTransfer(f)

NextLoad ==
    \/ \E f \in Files : load_transfer(f)
    \/ LoadDone

SpecLoad == Init /\ [][NextLoad]_vars

(***************************************************************************)
(* Transconductance: calc_gms (lines 388-437), _calc_gm (lines 439-494).   *)
(***************************************************************************)
NoGm == [index |-> << >>, vals |-> << >>]

\* integer quotient rounded toward zero; 0 when the divisor is 0
Quot(a, b) ==
    IF b = 0 THEN 0
    ELSE IF (a < 0) = (b < 0) THEN Abs(a) \div Abs(b)
    ELSE -(Abs(a) \div Abs(b))

\* deriv.gm_deriv with the raw method: the finite-difference derivative of
\* i with respect to v, one value per sample (the last sample repeats the
\* last difference, a single sample has derivative 0)
gm_deriv(v, i) ==
    [j \in 1..Len(v) |->
        IF Len(v) = 1 THEN 0
        ELSE IF j < Len(v) THEN Quot(i[j + 1] - i[j], v[j + 1] - v[j])
        ELSE Quot(i[j] - i[j - 1], v[j] - v[j - 1])]

\* np.max
RECURSIVE MaxOf(_)
MaxOf(xs) ==
    IF Len(xs) = 1 THEN xs[1]
    ELSE IF xs[Len(xs)] > MaxOf(SubSeq(xs, 1, Len(xs) - 1)) THEN xs[Len(xs)]
    ELSE MaxOf(SubSeq(xs, 1, Len(xs) - 1))

\* np.argmax: the first position of the maximum (1-based)
ArgMax(xs) == CHOOSE j \in 1..Len(xs) :
                  /\ xs[j] = MaxOf(xs)
                  /\ \A h \in 1..(j - 1) : xs[h] # MaxOf(xs)

\* get_gm, lines 465-471
get_gm(v, i) == [index |-> v, vals |-> gm_deriv(v, i)]

PeakRow(gm) == [v |-> gm.index[ArgMax(gm.vals)], gm |-> MaxOf(gm.vals)]

\* line 451 with a slip: the split of the curve itself
SplitOfCurve(df, point, rev) == _reverse(df.v)

\* line 451: mx, reverse = self.rev_point, self.reverse
SplitUsed(df, point, rev) == [mx |-> point[1], flag |-> rev]

\* _calc_gm(df): [err, gm_fwd, gm_bwd, gm_peaks]
_calc_gm(df, point, rev) ==
    LET v  == df.v
        i  == df.i
        mx == SplitUsed(df, point, rev).mx
        reversed == SplitUsed(df, point, rev).flag
        fwd == get_gm(PySlice(v, 0, mx), PySlice(i, 0, mx))
        bwd == get_gm(Flip(PySlice(v, mx, Len(v))), Flip(PySlice(i, mx, Len(i))))
    IN  IF mx >= Len(v)                      \* line 453: v[mx]
        THEN [err |-> "IndexError:453", gm_fwd |-> NoGm, gm_bwd |-> NoGm,
              gm_peaks |-> << >>]
        ELSE IF mx = 0                        \* line 475: np.max of nothing
        THEN [err |-> "ValueError:475", gm_fwd |-> NoGm, gm_bwd |-> NoGm,
              gm_peaks |-> << >>]
        ELSE IF reversed
        THEN [err |-> "none", gm_fwd |-> fwd, gm_bwd |-> bwd,
              gm_peaks |-> <<PeakRow(fwd), PeakRow(bwd)>>]
        ELSE [err |-> "none", gm_fwd |-> fwd, gm_bwd |-> NoGm,
              gm_peaks |-> <<PeakRow(fwd)>>]

\* lines 396-397 for the dict entries j..Len(d)
RECURSIVE GmLoop(_, _, _)
GmLoop(d, j, st) ==
    IF j > Len(d) \/ st.err # "none" THEN st
    ELSE LET r == _calc_gm(d[j].val, rev_point, reverse)
         IN  IF r.err # "none" THEN [st EXCEPT !.err = r.err]
             ELSE GmLoop(d, j + 1,
                    [st EXCEPT !.gm_fwd = DictSet(@, d[j].key, r.gm_fwd),
                               !.gm_bwd = DictSet(@, d[j].key, r.gm_bwd),
                               !.gm_peaks = [set |-> TRUE, rows |-> r.gm_peaks]])

\* the number 10^(digits of n), for n < 1000
Pow10Digits(n) == IF n < 10 THEN 10 ELSE IF n < 100 THEN 100 ELSE 1000

\* lines 413, 430: 'gm_' + g[:-1] + str(labels): the last character of the
\* key is dropped and the digits of labels are appended
Relabel(g, labels) ==
    [vd |-> g.vd,
     n  |-> IF g.n < 10 THEN labels
            ELSE (g.n \div 10) * Pow10Digits(labels) + labels]

\* lines 411-413, 428-430 with a slip: the column name is reused
FreshNameReuse(frame, g, nm, labels) == [nm |-> nm, labels |-> labels]

\* lines 411-413, 428-430: while nm in self.gms: labels += 1; nm = ...
RECURSIVE FreshName(_, _, _, _)
FreshName(frame, g, nm, labels) ==
    IF ColPos(frame, nm) = 0 THEN [nm |-> nm, labels |-> labels]
    ELSE FreshName(frame, g, Relabel(g, labels + 1), labels + 1)

\* lines 402-417 (d = gm_fwd) and 419-434 (d = gm_bwd), entries j..Len(d)
RECURSIVE GmsLoop(_, _, _)
GmsLoop(d, j, st) ==
    IF j > Len(d) \/ st.err # "none" THEN st
    ELSE IF Len(d[j].val.index) = 0 THEN GmsLoop(d, j + 1, st)
    ELSE LET fresh == FreshName(st.gms, d[j].key, d[j].key, st.labels)
             put == FrameSet(st.gms, fresh.nm,
                             SortedSeries(d[j].val.index, d[j].val.vals))
         IN  IF put.ok
             THEN GmsLoop(d, j + 1, [st EXCEPT !.gms = put.frame,
                                               !.labels = fresh.labels])
             ELSE [st EXCEPT !.labels = fresh.labels, !.err = "ValueError:417"]

\* calc_gms, lines 388-437
calc_gms ==
    /\ pc = "ready"
    /\ hist.calc < MaxCalc
    /\ LET one == GmLoop(transfer, 1,
                    [gm_fwd |-> gm_fwd, gm_bwd |-> gm_bwd,
                     gm_peaks |-> gm_peaks, err |-> "none"])
           two == GmsLoop(one.gm_fwd, 1,
                    [gms |-> gms, labels |-> 0, err |-> one.err])
           three == GmsLoop(one.gm_bwd, 1, two)
           e == IF three.err # "none" THEN three.err
                ELSE IF ~one.gm_peaks.set THEN "AttributeError:436"
                ELSE "none"
       IN  /\ gm_fwd' = one.gm_fwd
           /\ gm_bwd' = one.gm_bwd
           /\ gm_peaks' = one.gm_peaks
           /\ gms' = three.gms
           /\ err' = e
           /\ peak_gm' = IF e = "none"
                         THEN [j \in 1..Len(one.gm_peaks.rows) |->
                                  one.gm_peaks.rows[j].gm]
                         ELSE peak_gm
    /\ hist' = [hist EXCEPT !.calc = @ + 1, !.last = "calc_gms",
                             !.calc_ok = (err' = "none")]
    /\ UNCHANGED <<v_in, split, fp, pc, options, files_read, transfer, transfers,
                   num_transfers, reverse, rev_point, rev_v, quad, Vt, Vts,
                   VgVt, VgVts, loc>>

(***************************************************************************)
(* Threshold: thresh (lines 637-693), quadrant (625-635), _min_fit         *)
(* (696-737), _find_peak (746-780).  The scipy routines are external:      *)
(* find_peaks_cwt may report any ascending list of at most MaxPeaks grid   *)
(* positions, curve_fit any parameters inside the bounds it is given, or   *)
(* fail to converge.                                                       *)
(***************************************************************************)
\* np.sqrt on the integers: the root rounded down
Isqrt(x) == CHOOSE r \in 0..x : r * r <= x /\ (r + 1) * (r + 1) > x

RECURSIVE MinOf(_)
MinOf(xs) ==
    IF Len(xs) = 1 THEN xs[1]
    ELSE Min2(xs[Len(xs)], MinOf(SubSeq(xs, 1, Len(xs) - 1)))

\* lines 662, 665: Id_lo = sqrt(|column|), handed on as Id_lo - min(Id_lo).
\* A NaN cell makes the minimum, and with it every sample, NaN.
IdOf(col) ==
    IF \E j \in 1..Len(col) : col[j] = NaN
    THEN [nan |-> TRUE, vals |-> [j \in 1..Len(col) |-> 0]]
    ELSE LET lo == [j \in 1..Len(col) |-> Isqrt(Abs(col[j][1]))]
         IN  [nan |-> FALSE,
              vals |-> [j \in 1..Len(lo) |->
                          IF Len(lo) = 0 THEN 0 ELSE lo[j] - MinOf(lo)]]

\* quadrant(), lines 625-635: self.quad afterwards
quadrant(rows, q) ==
    IF \E j \in 1..Len(rows) : rows[j].v < 0 THEN "III"
    ELSE IF \E j \in 1..Len(rows) : rows[j].v > 0 THEN "I"
    ELSE q

Negate(xs) == [j \in 1..Len(xs) |-> -xs[j]]

\* _min_fit lines 698-711: the arrays handed to _find_peak and curve_fit
MinFitArrays(Id, V, q) ==
    LET asc == IF V[3] < V[2] THEN [Id |-> Flip(Id), V |-> Flip(V)]
               ELSE [Id |-> Id, V |-> V]
    IN  IF q = "I" THEN [Id |-> Flip(asc.Id), V |-> Flip(Negate(asc.V))]
        ELSE asc

\* the degree of the smoothing spline (line 770): it needs more than
\* SplineDegree samples
SplineDegree == 5

\* line 771: samples of V_spl per voltage unit (a step of 0.005 V)
GridPerUnit == 2

\* line 775: peaks at grid positions up to EdgeSamples are dropped
EdgeSamples == 5

\* len(V_spl), V_spl = np.arange(V[0], V[-1], 0.005)
GridLen(V) ==
    IF V[Len(V)] > V[1] THEN (V[Len(V)] - V[1]) * GridPerUnit ELSE 0

\* np.searchsorted(V, V_spl[p]) for the grid position p
SearchGrid(V, p) ==
    Cardinality({j \in 1..Len(V) : (V[j] - V[1]) * GridPerUnit < p})

\* line 775 with a slip: no peak is dropped
KeepAll(p) == TRUE

\* line 775: peaks = peaks[peaks > 5]
KeepPeak(p) == p > EdgeSamples

\* _find_peak lines 775-780, given the peaks find_peaks_cwt reported
_find_peak(V, peaks) ==
    LET kept == SelectSeq(peaks, KeepPeak)
    IN  [j \in 1..Len(kept) |-> SearchGrid(V, kept[j])]

\* the ascending lists of at most m grid positions below n
RECURSIVE AscLists(_, _)
AscLists(n, m) ==
    IF m = 0 THEN {<< >>}
    ELSE LET prev == AscLists(n, m - 1)
         IN  prev \cup
             {Append(sp[1], sp[2]) :
                 sp \in {x \in prev \X (0..(n - 1)) :
                            /\ Len(x[1]) = m - 1
                            /\ (Len(x[1]) = 0 \/ x[2] > x[1][Len(x[1])])}}

PeakLists(V) == AscLists(GridLen(V), MaxPeaks)

(***************************************************************************)
(* _find_peak as a pure function of the voltages V and of the peaks that   *)
(* find_peaks_cwt reports: SpecFindPeak draws both and applies it once.    *)
(***************************************************************************)
\* the ascending gate voltages _min_fit hands to _find_peak (line 713): the
\* sweeps of the transfer files long enough for the spline
FindPeakSweeps ==
    {[j \in 1..n |-> j - 1 - KLong] : n \in (SplineDegree + 1)..KLong}

FindPeakCalled == fp.out # << >>

InitFindPeak ==
    /\ v_in = << >>
    /\ split = << >>
    /\ fp \in UNION {[V : {V}, peaks : PeakLists(V), out : {<< >>}] :
                        V \in FindPeakSweeps}
    /\ pc = "find_peak"
    /\ options = [Average |-> FALSE, Reverse |-> TRUE]
    /\ InitFields

CallFindPeak ==
    /\ pc = "find_peak"
    /\ fp.out = << >>
    /\ fp' = [fp EXCEPT !.out = <<_find_peak(fp.V, fp.peaks)>>]
    /\ UNCHANGED <<v_in, split, deviceVars>>

NextFindPeak == CallFindPeak

SpecFindPeak == InitFindPeak /\ [][NextFindPeak]_vars

\* line 724 with a slip: no upper bound on the slope
Unbounded(f) == TRUE

\* line 724: bounds=([-inf, -inf], [0, inf]): f0 <= 0, f1 free
WithinBounds(f) == f[1] <= 0

FitGrid == {-1, 0, 1} \X {-2, 2}

\* what curve_fit can return: parameters <<f0, f1>> inside the bounds, or
\* no convergence (RuntimeError)
NoFit == <<0, 0, 0>>

FitOutcomes == {f \in FitGrid : WithinBounds(f)} \cup {NoFit}

\* line 726: np.searchsorted(V, -fit[1] / fit[0]); a zero slope divides
\* by zero: -inf for f1 > 0, +inf for f1 < 0, nan for f1 = 0
SearchIntercept(V, f) ==
    IF f[1] < 0 THEN Cardinality({j \in 1..Len(V) : V[j] * f[1] + f[2] > 0})
    ELSE IF f[1] > 0 THEN Cardinality({j \in 1..Len(V) : V[j] * f[1] + f[2] < 0})
    ELSE IF f[2] > 0 THEN 0
    ELSE Len(V)

\* line 743
line_f(x, f0, f1) == f1 + f0 * x

\* line 727: the sum of squared residuals over the first n samples
RECURSIVE Residual(_, _, _, _)
Residual(Id, V, f, n) ==
    IF n = 0 THEN 0
    ELSE Residual(Id, V, f, n - 1)
         + (Id[n] - line_f(V[n], f[1], f[2])) * (Id[n] - line_f(V[n], f[1], f[2]))

\* lines 726-727 for one fit: the residual up to the fitted intercept
ResidualOf(Id, V, f) == Residual(Id, V, f, SearchIntercept(V, f))

\* lines 720-732: the fit of least residual among the candidates mx_d2,
\* the first one on a tie (np.argmin); fo[m] is what curve_fit returned for
\* the samples up to m, res[f] the residual of fit f
BestFit(res, mx_d2, fo) ==
    LET best == CHOOSE j \in 1..Len(mx_d2) :
                    /\ \A h \in 1..Len(mx_d2) :
                          res[fo[mx_d2[j]]] <= res[fo[mx_d2[h]]]
                    /\ \A h \in 1..(j - 1) :
                          res[fo[mx_d2[h]]] > res[fo[mx_d2[j]]]
    IN  fo[mx_d2[best]]

\* lines 734-735 with a slip: the slope is not flipped back
KeepSign(f, q) == f

\* lines 734-735: in quadrant I the slope is flipped back
FlipBack(f, q) == IF q = "I" THEN <<-f[1], f[2]>> ELSE f

\* the number of curves thresh() visits: zip(self.transfers,
\* self.gm_peaks.index) at line 660 stops at the shorter of the two
ThreshCount == Min2(Len(transfers.cols), Len(gm_peaks.rows))

threshUnchanged == <<v_in, split, fp, options, files_read, transfer, transfers,
                     num_transfers, reverse, rev_point, rev_v, gm_fwd, gm_bwd,
                     gm_peaks, gms, peak_gm>>

\* thresh(), lines 647-660, up to the loop header
thresh_begin ==
    /\ pc = "ready"
    /\ hist.thresh < MaxThresh
    /\ hist' = [hist EXCEPT !.thresh = @ + 1, !.last = "thresh"]
    /\ IF gm_peaks.set
       THEN /\ pc' = "thresh"
            /\ err' = "none"
            /\ loc' = NoLocals
       ELSE /\ pc' = "ready"
            /\ err' = "AttributeError:660"
            /\ loc' = NoLocals
    /\ UNCHANGED <<quad, Vt, Vts, VgVt, VgVts>>
    /\ UNCHANGED threshUnchanged

\* an exception inside _min_fit ends thresh(); quadrant() may have run
ThreshRaise(e, q) ==
    /\ pc' = "ready"
    /\ err' = e
    /\ quad' = q
    /\ loc' = NoLocals
    /\ UNCHANGED <<Vt, Vts, VgVt, VgVts, hist>>
    /\ UNCHANGED threshUnchanged

\* line 679: -fit[1] / fit[0], the x-intercept of the fit, as the ratio
\* [num, den]; a zero slope leaves den = 0 (numpy's inf)
XIntercept(fit) == [num |-> -fit[2], den |-> fit[1]]

\* line 680 with a slip: the quotient is subtracted from the peak voltage
OverdriveMinus(fit, pk) ==
    [num |-> Abs(pk * fit[1] - fit[2]), den |-> Abs(fit[1])]

\* line 680: np.abs(pk + fit[1] / fit[0])
Overdrive(fit, pk) ==
    [num |-> Abs(pk * fit[1] + fit[2]), den |-> Abs(fit[1])]

\* lines 679-680 for the fit returned by _min_fit; a ratio is kept as the
\* pair [num, den]
ThreshAppend(fit, pk, q) ==
    /\ pc' = "thresh"
    /\ err' = "none"
    /\ quad' = q
    /\ loc' = [k |-> loc.k + 1,
               Vts |-> Append(loc.Vts, XIntercept(fit)),
               VgVts |-> Append(loc.VgVts, Overdrive(fit, pk)),
               fit |-> fit]
    /\ UNCHANGED <<Vt, Vts, VgVt, VgVts, hist>>
    /\ UNCHANGED threshUnchanged

Range(xs) == {xs[j] : j \in 1..Len(xs)}

\* _min_fit lines 698-711 for column k: the arrays handed on, the quadrant
\* and the exception raised on the way, if any
MinFitEntry(k) ==
    LET Id0 == IdOf(transfers.cols[k].vals)
        V0  == transfers.index
        q   == quadrant(gm_peaks.rows, quad)
        a   == MinFitArrays(Id0.vals, V0, q)
    IN  IF Len(V0) < 3
        THEN [err |-> "IndexError:702", quad |-> quad, Id |-> << >>,
              V |-> << >>, nan |-> FALSE]
        ELSE IF q = "unset"
        THEN [err |-> "AttributeError:708", quad |-> quad, Id |-> << >>,
              V |-> << >>, nan |-> FALSE]
        ELSE IF Len(V0) <= SplineDegree
        THEN [err |-> "SplineError:770", quad |-> q, Id |-> << >>,
              V |-> << >>, nan |-> FALSE]
        ELSE [err |-> "none", quad |-> q, Id |-> a.Id, V |-> a.V,
              nan |-> Id0.nan]

\* lines 720-737 for the candidates mx_d2 and the answers fo of curve_fit:
\* the fit _min_fit returns, or the exception it raises
FitResult(q, res, mx_d2, fo) ==
    IF \E m \in Range(mx_d2) : fo[m] = NoFit
    THEN [err |-> "RuntimeError:723", fit |-> NoFit]
    ELSE [err |-> "none", fit |-> FlipBack(BestFit(res, mx_d2, fo), q)]

\* lines 713-737 for the candidates mx_d2 that _find_peak returned
MinFitResults(a, res, mx_d2) ==
    IF mx_d2 = << >>        \* the retry at line 717 repeats the call and
                            \* gets the same answer; line 731 then fails
    THEN {[err |-> "IndexError:731", fit |-> NoFit]}
    ELSE IF a.nan THEN {[err |-> "ValueError:723", fit |-> NoFit]}
    ELSE {FitResult(a.quad, res, mx_d2, fo) :
             fo \in [Range(mx_d2) -> FitOutcomes]}

\* every way _min_fit can end for the arrays a: over the peaks that
\* find_peaks_cwt may report and the parameters curve_fit may return
MinFitOutcomes(a) ==
    UNION {MinFitResults(a, rm[1], rm[2]) :
             rm \in {[f \in FitOutcomes \ {NoFit} |-> ResidualOf(a.Id, a.V, f)]}
                    \X {_find_peak(a.V, peaks) : peaks \in PeakLists(a.V)}}

\* one pass of the loop at lines 660-680, _min_fit included.  (\E x \in {e}
\* names the value of e.)
thresh_curve ==
    /\ pc = "thresh"
    /\ loc.k < ThreshCount
    /\ \E a \in {MinFitEntry(loc.k + 1)} :
       IF a.err # "none" THEN ThreshRaise(a.err, a.quad)
       ELSE \E r \in MinFitOutcomes(a) :
            IF r.err # "none" THEN ThreshRaise(r.err, a.quad)
            ELSE ThreshAppend(r.fit, gm_peaks.rows[loc.k + 1].v, a.quad)

\* np.mean of a list of ratios, as the pair [num, den] of the sum over the
\* common denominator and that denominator times the count
RECURSIVE RatioSum(_)
RatioSum(rs) ==
    IF rs = << >> THEN [num |-> 0, den |-> 1]
    ELSE LET rest == RatioSum(Tail(rs))
         IN  [num |-> rs[1].num * rest.den + rest.num * rs[1].den,
              den |-> rs[1].den * rest.den]

MeanOf(rs) ==
    IF rs = << >> THEN NaNScalar
    ELSE [kind |-> "float", num |-> RatioSum(rs).num,
          den |-> RatioSum(rs).den * Len(rs)]

ArrayOf(xs) == [kind |-> "array", data |-> xs]

\* thresh(), lines 688-691, after the loop
thresh_end ==
    /\ pc = "thresh"
    /\ loc.k = ThreshCount
    /\ Vt' = MeanOf(loc.Vts)
    /\ Vts' = ArrayOf(loc.Vts)
    /\ VgVt' = MeanOf(loc.VgVts)
    /\ VgVts' = ArrayOf(loc.VgVts)
    /\ pc' = "ready"
    /\ loc' = NoLocals
    /\ UNCHANGED <<err, quad, hist>>
    /\ UNCHANGED threshUnchanged

Next ==
    \/ \E f \in Files : transfer_curve(f)
    \/ LoadDone
    \/ calc_gms
    \/ thresh_begin
    \/ thresh_curve
    \/ thresh_end

Spec == Init /\ [][Next]_vars

(***************************************************************************)
(* Claims about _reverse, checked under SpecReverse.                       *)
(***************************************************************************)
\* a forward leg of k >= 1 samples immediately followed by its mirror image
MirroredSweep(v) == Len(v) >= 2 /\ Len(v) % 2 = 0 /\ v = Flip(v)

\* C1: for every sweep that is a forward leg of k samples immediately
\* followed by its mirror image, _reverse returns hasReverse = true and a
\* split index equal to the forward-leg length k.
C1_Claim ==
    (Called /\ MirroredSweep(v_in)) =>
        (split[1].flag /\ split[1].mx = Len(v_in) \div 2)

\* C2: for every strictly monotonic voltage sequence, and for every
\* sequence of length < 3, _reverse returns hasReverse = false.
C2_Claim ==
    (Called /\ (StrictlyMonotonic(v_in) \/ Len(v_in) < 3)) => ~split[1].flag

\* C3 as stated: for every input v the returned pair satisfies
\* 0 < mx <= len(v), and mx = len(v) - 1 whenever flag is false.
C3_Claim ==
    Called =>
        /\ 0 < split[1].mx
        /\ split[1].mx <= Len(v_in)
        /\ (~split[1].flag => split[1].mx = Len(v_in) - 1)

\* C3 amended: for every input v the returned pair satisfies
\* 0 <= mx <= len(v), with 0 < mx whenever len(v) >= 2, and
\* mx = len(v) - 1 whenever flag is false.
C3_Amended ==
    Called =>
        /\ 0 <= split[1].mx
        /\ split[1].mx <= Len(v_in)
        /\ (Len(v_in) >= 2 => 0 < split[1].mx)
        /\ (~split[1].flag => split[1].mx = Len(v_in) - 1)

\* C3 witness: _reverse has returned "no reverse leg" for a sweep
C3_Witness == Called /\ ~split[1].flag /\ Len(v_in) >= 3

(***************************************************************************)
(* Claims about the pipeline, checked under Spec.                          *)
(***************************************************************************)
\* thresh() has been called on a device whose calc_gms() was never called
ThreshBeforeGms == hist.calc = 0 /\ hist.last = "thresh"

\* C4: calling thresh() on a loaded device before calc_gms() has ever been
\* called fails with an error instead of producing a threshold, and the
\* failure leaves Vt and Vts at their initial NaN values.
C4_Claim ==
    ThreshBeforeGms =>
        /\ pc = "ready"
        /\ err = "AttributeError:660"
        /\ Vt = NaNScalar
        /\ Vts = NaNScalar

\* C4 witness: thresh() was called, and failed, before any calc_gms() on a
\* device that loaded a transfer curve
C4_Witness ==
    /\ ThreshBeforeGms
    /\ Len(transfers.cols) >= 1
    /\ err = "AttributeError:660"

\* a thresh() in which every fit succeeded has returned, after a calc_gms()
\* that returned
ThreshReturned ==
    pc = "ready" /\ hist.last = "thresh" /\ hist.calc_ok /\ err = "none"

\* C5: after load, calc_gms() and a thresh() in which every fit succeeds,
\* len(Vts) equals the number of columns of the aggregated transfers table,
\* for any number of loaded files, with or without reverse legs.
C5_Claim ==
    ThreshReturned =>
        /\ Vts.kind = "array"
        /\ Len(Vts.data) = Len(transfers.cols)

\* C6: when the transition search for one transfer curve returns no
\* candidates on both attempts, thresh() still processes the remaining
\* curves and stores a Vts array that omits only the failed curve's entry:
\* its length is one less than the transfer-curve count.
C6_Claim ==
    (pc = "ready" /\ hist.last = "thresh" /\ err = "IndexError:731") =>
        /\ Vts.kind = "array"
        /\ Len(Vts.data) = Len(transfers.cols) - 1

\* _min_fit has returned a fit to the running thresh()
FitReturned == pc = "thresh" /\ loc.fit # << >>

\* C7 as stated: every fit returned by _min_fit, in either polarity
\* quadrant, has slope fit[0] <= 0 and intercept fit[1] >= 0.
C7_Claim ==
    FitReturned => (loc.fit[1] <= 0 /\ loc.fit[2] >= 0)

\* C7 amended: every fit returned by _min_fit has slope fit[0] <= 0 in
\* quadrant III and slope fit[0] >= 0 in quadrant I; the intercept fit[1]
\* is not bounded.
C7_Amended ==
    FitReturned =>
        /\ quad \in {"I", "III"}
        /\ (quad = "III" => loc.fit[1] <= 0)
        /\ (quad = "I" => loc.fit[1] >= 0)

\* C7 witness: _min_fit has returned a fit of positive slope in quadrant I
C7_Witness == FitReturned /\ quad = "I" /\ loc.fit[1] > 0

\* C8: re-running calc_gms() (and thresh()) on the same loaded device, after
\* a first run that returned, leaves the gms table, the transfers table and
\* the Vts array as they were, with the same columns and the same values.
C8_Claim ==
    [][(hist.calc_ok /\ hist'.calc = hist.calc + 1) =>
          (gms' = gms /\ transfers' = transfers /\ Vts' = Vts)]_vars

\* the sample-wise mean of the two loaded curves, as cells <<sum, count>>
MeanOfInputs ==
    [j \in 1..Len(transfer[1].val.i) |->
        <<transfer[1].val.i[j] + transfer[2].val.i[j], 2>>]

\* C9: with option Average = true and two loaded transfer curves, loading
\* completes and the transfers table has exactly one column, equal to the
\* sample-wise mean of the two input curves.
C9_Claim ==
    (options.Average /\ Len(transfer) = 2 /\ pc # "loading") =>
        /\ pc # "failed"
        /\ transfers.kind = "DataFrame"
        /\ Len(transfers.cols) = 1
        /\ transfers.cols[1].vals = MeanOfInputs

\* the gm tables of dict entry j come from the split of curve j itself
OwnSplit(j) ==
    LET key == transfer[j].key
        v   == transfer[j].val.v
        own == _reverse(v)
    IN  /\ HasKey(gm_fwd, key)
        /\ HasKey(gm_bwd, key)
        /\ gm_fwd[DictPos(gm_fwd, key)].val.index = PySlice(v, 0, own.mx)
        /\ (gm_bwd[DictPos(gm_bwd, key)].val.index = << >>) <=> ~own.flag

\* C10: for every loaded transfer curve, calc_gms() splits that curve using
\* that curve's own split result: its forward gm covers exactly that
\* curve's forward leg, and its backward gm is empty exactly when that
\* curve has no reverse leg, whatever other curves were loaded.
C10_Claim ==
    (hist.last = "calc_gms" /\ err = "none") =>
        \A j \in 1..Len(transfer) : OwnSplit(j)

\* two ratios [num, den] denote the same number
RatioEq(a, b) == a.num * b.den = b.num * a.den

\* the gm-peak voltage thresh() paired with the curve it fitted last
PeakOfLast == gm_peaks.rows[loc.k].v

\* |pk + x|, for the ratio x
AbsPlus(pk, x) == [num |-> Abs(pk * x.den + x.num), den |-> Abs(x.den)]

\* |pk - x|, for the ratio x
AbsMinus(pk, x) == [num |-> Abs(pk * x.den - x.num), den |-> Abs(x.den)]

\* C11 as stated: for every curve processed by thresh(), the stored
\* threshold is the x-intercept -f1/f0 of the winning fit and the stored
\* VgVts entry equals |peak_voltage + x_intercept|, with peak_voltage the
\* gm-peak voltage paired with that curve.
C11_Claim ==
    FitReturned =>
        /\ RatioEq(loc.Vts[loc.k], [num |-> -loc.fit[2], den |-> loc.fit[1]])
        /\ RatioEq(loc.VgVts[loc.k],
                   AbsPlus(PeakOfLast,
                           [num |-> -loc.fit[2], den |-> loc.fit[1]]))

\* C11 amended: for every curve processed by thresh(), the stored threshold
\* is the x-intercept -f1/f0 of the winning fit and the stored VgVts entry
\* equals |peak_voltage - x_intercept| = |peak_voltage + f1/f0|, with
\* peak_voltage the gm-peak voltage paired with that curve.
C11_Amended ==
    FitReturned =>
        /\ RatioEq(loc.Vts[loc.k], [num |-> -loc.fit[2], den |-> loc.fit[1]])
        /\ RatioEq(loc.VgVts[loc.k],
                   AbsMinus(PeakOfLast,
                            [num |-> -loc.fit[2], den |-> loc.fit[1]]))

\* C11 witness: thresh() has stored the entries of a curve whose fit has a
\* slope and an intercept other than zero, at a peak voltage other than zero
C11_Witness ==
    /\ FitReturned
    /\ Len(loc.Vts) = loc.k
    /\ Len(loc.VgVts) = loc.k
    /\ loc.fit[1] # 0
    /\ loc.fit[2] # 0
    /\ PeakOfLast # 0

(***************************************************************************)
(* Claims about _find_peak, checked under SpecFindPeak.                    *)
(***************************************************************************)
\* grid position p is more than EdgeSamples samples away from the first and
\* from the last sample of the resampled second-derivative array
FarFromEnds(V, p) ==
    /\ p > EdgeSamples
    /\ (GridLen(V) - 1) - p > EdgeSamples

\* the peaks find_peaks_cwt reported that are far from both ends
InteriorPeaks ==
    {j \in 1..Len(fp.peaks) : FarFromEnds(fp.V, fp.peaks[j])}

\* C12: every candidate index returned by _find_peak comes from a detected
\* peak more than 5 samples away from both ends of the resampled
\* second-derivative array: peaks within 5 samples of the first sample and
\* peaks within 5 samples of the last sample are all discarded.
C12_Claim ==
    FindPeakCalled => Len(fp.out[1]) = Cardinality(InteriorPeaks)

(***************************************************************************)
(* Claims about loading, checked under SpecLoad.                           *)
(***************************************************************************)
\* C13: after loading any sequence of transfer files (any mix of drain
\* voltages, any count), the transfer dictionary holds one entry per loaded
\* file: transfer_curve never assigns a key that is already present, so no
\* earlier curve is overwritten by a later one.
C13_Claim == Len(transfer) = files_read

====
